---------------------------- MODULE Spec2Model ----------------------------
(***************************************************************************)
(* Model of ai-generators/generate_files_from_xlsx.py: the workbook-to-    *)
(* files generator (slugify, get_first, the sheet classifier, the category *)
(* transformers, the writers and the run loop of main).                    *)
(*                                                                         *)
(* Python strings are sequences of one-character strings.  A Python value  *)
(* (a cell of a sheet, a value of an output record) is a record            *)
(* [t, s, n]: t its type, s its text (t = "str") or its items              *)
(* (t = "list"), n its number (t = "int", or an integral "float").         *)
(* A dict is the sequence of its <<key, value>> pairs in insertion order.  *)
(***************************************************************************)
EXTENDS Integers, Sequences, FiniteSets, TLC

\* ------------------------------------------------------------ characters

UpperChars == <<"A","B","C","D","E","F","G","H","I","J","K","L","M",
                "N","O","P","Q","R","S","T","U","V","W","X","Y","Z">>
LowerChars == <<"a","b","c","d","e","f","g","h","i","j","k","l","m",
                "n","o","p","q","r","s","t","u","v","w","x","y","z">>
DigitChars == <<"0","1","2","3","4","5","6","7","8","9">>

Range(f) == {f[i] : i \in DOMAIN f}

UpperSet == Range(UpperChars)
LowerSet == Range(LowerChars)
DigitSet == Range(DigitChars)
\* \s of the regular expressions, and what str.strip() removes
SpaceSet == {" ", "\t", "\n"}

IsUpper(c) == c \in UpperSet
IsLower(c) == c \in LowerSet
IsDigit(c) == c \in DigitSet
IsSpace(c) == c \in SpaceSet

ToLower == [c \in UpperSet |-> LowerChars[CHOOSE i \in DOMAIN UpperChars : UpperChars[i] = c]]

\* str.lower() on one character
LowerChar(c) == IF c \in UpperSet THEN ToLower[c] ELSE c

\* ------------------------------------------------------------ strings

\* str.lower()
Lower(s) == [i \in DOMAIN s |-> LowerChar(s[i])]

RECURSIVE LStrip(_)
LStrip(s) == IF s # <<>> /\ IsSpace(Head(s)) THEN LStrip(Tail(s)) ELSE s

RECURSIVE RStrip(_)
RStrip(s) ==
    IF s # <<>> /\ IsSpace(s[Len(s)]) THEN RStrip(SubSeq(s, 1, Len(s) - 1)) ELSE s

\* str.strip()
Strip(s) == RStrip(LStrip(s))

\* re.sub(r"\s+", rep, s): every maximal run of whitespace becomes rep
RECURSIVE SubSpaceRuns(_, _)
SubSpaceRuns(s, rep) ==
    IF s = <<>> THEN <<>>
    ELSE IF IsSpace(Head(s)) THEN rep \o SubSpaceRuns(LStrip(s), rep)
    ELSE <<Head(s)>> \o SubSpaceRuns(Tail(s), rep)

\* str.endswith
EndsWith(s, suffix) ==
    /\ Len(s) >= Len(suffix)
    /\ SubSeq(s, Len(s) - Len(suffix) + 1, Len(s)) = suffix

\* decimal digits of a natural number
RECURSIVE Decimal(_)
Decimal(n) ==
    IF n < 10 THEN <<DigitChars[n + 1]>>
    ELSE Decimal(n \div 10) \o <<DigitChars[(n % 10) + 1]>>

\* [p.strip() for p in s.split(sep) if p.strip()]
RECURSIVE SplitParts(_, _, _)
SplitParts(s, sep, cur) ==
    IF s = <<>> THEN (IF Strip(cur) = <<>> THEN <<>> ELSE <<Strip(cur)>>)
    ELSE IF Head(s) = sep
         THEN (IF Strip(cur) = <<>> THEN <<>> ELSE <<Strip(cur)>>)
              \o SplitParts(Tail(s), sep, <<>>)
         ELSE SplitParts(Tail(s), sep, Append(cur, Head(s)))

\* " ".join(parts)
RECURSIVE JoinSpace(_)
JoinSpace(parts) ==
    IF parts = <<>> THEN <<>>
    ELSE IF Len(parts) = 1 THEN parts[1]
    ELSE parts[1] \o <<" ">> \o JoinSpace(Tail(parts))

\* ------------------------------------------------------------ values

PyNone      == [t |-> "none",  s |-> <<>>, n |-> 0]
NaN         == [t |-> "nan",   s |-> <<>>, n |-> 0]
Str(s)      == [t |-> "str",   s |-> s,    n |-> 0]
PyInt(n)    == [t |-> "int",   s |-> <<>>, n |-> n]
PyFloat(n)  == [t |-> "float", s |-> <<>>, n |-> n]
PyList(l)   == [t |-> "list",  s |-> l,    n |-> 0]

\* str(v)
PyStr(v) ==
    CASE v.t = "str"   -> v.s
      [] v.t = "int"   -> Decimal(v.n)
      [] v.t = "float" -> Decimal(v.n) \o <<".", "0">>
      [] v.t = "nan"   -> <<"n", "a", "n">>
      [] OTHER         -> <<"N", "o", "n", "e">>

\* pd.isna(v), also what Series.dropna() drops
IsNa(v) == v.t \in {"none", "nan"}

Untitled == <<"u","n","t","i","t","l","e","d">>

SlugKeeps(c) == IsUpper(c) \/ IsLower(c) \/ IsDigit(c) \/ IsSpace(c) \/ c = "-"

slugify_NoLower(text) ==
    IF text.t = "none" THEN Untitled
    ELSE LET t1 == Strip(PyStr(text))
             t2 == SelectSeq(t1, SlugKeeps)
             t3 == SubSpaceRuns(Strip(t2), <<"-">>)
         IN  IF t1 = <<>> THEN Untitled
             ELSE IF t3 = <<>> THEN Untitled ELSE t3

slugify(text) ==
    IF text.t = "none" THEN Untitled
    ELSE LET t1 == Strip(PyStr(text))
             t2 == SelectSeq(t1, SlugKeeps)
             t3 == SubSpaceRuns(Lower(Strip(t2)), <<"-">>)
         IN  IF t1 = <<>> THEN Untitled
             ELSE IF t3 = <<>> THEN Untitled ELSE t3

_as_str(v) == IF IsNa(v) THEN <<>> ELSE Strip(PyStr(v))

_is_blank(v) == IsNa(v) \/ Strip(PyStr(v)) = <<>>

\* A row is a function from the sheet's column names to values.
RECURSIVE get_first_LastWins(_, _, _)
get_first_LastWins(row, keys, default) ==
    IF keys = <<>> THEN default
    ELSE LET k == keys[Len(keys)]
         IN  IF k \in DOMAIN row /\ ~_is_blank(row[k]) THEN row[k]
             ELSE get_first_LastWins(row, SubSeq(keys, 1, Len(keys) - 1), default)

RECURSIVE get_first(_, _, _)
get_first(row, keys, default) ==
    IF keys = <<>> THEN default
    ELSE IF Head(keys) \in DOMAIN row /\ ~_is_blank(row[Head(keys)])
         THEN row[Head(keys)]
         ELSE get_first(row, Tail(keys), default)

\* get_first(row, keys) with the default default=""
GetFirst(row, keys) == get_first(row, keys, Str(<<>>))

\* ------------------------------------------------------------ dicts

DictHas(d, k) == \E i \in DOMAIN d : d[i][1] = k

DictGet(d, k) == d[CHOOSE i \in DOMAIN d : d[i][1] = k][2]

\* d[k] = v: a present key keeps its place, a new key goes last
DictSet(d, k, v) ==
    IF DictHas(d, k)
    THEN [i \in DOMAIN d |-> IF d[i][1] = k THEN <<k, v>> ELSE d[i]]
    ELSE Append(d, <<k, v>>)

\* if cond: d[k] = v
SetIf(d, cond, k, v) == IF cond THEN DictSet(d, k, v) ELSE d

\* for col in df.columns: [if col in data: continue;] v = row.get(col);
\* if pd.isna(v): continue; data[col] = v
RECURSIVE CopyColumns(_, _, _, _)
CopyColumns(cols, row, data, skipPresent) ==
    IF cols = <<>> THEN data
    ELSE LET col == Head(cols)
         IN  IF (skipPresent /\ DictHas(data, col)) \/ IsNa(row[col])
             THEN CopyColumns(Tail(cols), row, data, skipPresent)
             ELSE CopyColumns(Tail(cols), row, DictSet(data, col, row[col]), skipPresent)

\* ------------------------------------------------------------ configuration

canonical_output ==
    [ organization  |-> "schemas/organization",
      services      |-> "schemas/services",
      products      |-> "schemas/products",
      faqs          |-> "schemas/faqs",
      help_articles |-> "schemas/help-articles",
      reviews       |-> "schemas/reviews",
      locations     |-> "schemas/locations",
      team          |-> "schemas/team",
      awards        |-> "schemas/awards",
      press         |-> "schemas/press",
      case_studies  |-> "schemas/case-studies" ]

Categories == DOMAIN canonical_output

KnownDirs == {canonical_output[c] : c \in Categories}

SHEET_ALIASES == <<
    <<"organization", <<
       <<"e","n","t","i","t","y","_","i","n","f","o">>,
       <<"B","u","s","i","n","e","s","s"," ","I","n","f","o">>,
       <<"B","u","s","i","n","e","s","s"," ","i","n","f","o","r","m","a","t","i","o","n">>,
       <<"O","r","g","a","n","i","z","a","t","i","o","n">>,
       <<"C","o","m","p","a","n","y">>,
       <<"F","i","r","m"," ","I","n","f","o">>>> >>,
    <<"services", <<
       <<"S","e","r","v","i","c","e","s">>,
       <<"P","r","a","c","t","i","c","e"," ","A","r","e","a","s">>,
       <<"P","r","a","c","t","i","c","e"," ","a","r","e","a","s">>,
       <<"S","e","r","v","i","c","e"," ","A","r","e","a","s">>,
       <<"M","e","d","i","c","a","l"," ","S","p","e","c","i","a","l","t","i","e","s">>>> >>,
    <<"products", <<
       <<"P","r","o","d","u","c","t","s">>>> >>,
    <<"faqs", <<
       <<"F","A","Q","s">>,
       <<"F","A","Q">>>> >>,
    <<"help_articles", <<
       <<"H","e","l","p"," ","A","r","t","i","c","l","e","s">>,
       <<"H","e","l","p"," ","a","r","t","i","c","l","e","s">>,
       <<"A","r","t","i","c","l","e","s">>,
       <<"G","u","i","d","e","s">>,
       <<"B","l","o","g">>>> >>,
    <<"reviews", <<
       <<"R","e","v","i","e","w","s">>,
       <<"T","e","s","t","i","m","o","n","i","a","l","s">>>> >>,
    <<"locations", <<
       <<"L","o","c","a","t","i","o","n","s">>,
       <<"O","f","f","i","c","e","s">>>> >>,
    <<"team", <<
       <<"T","e","a","m">>,
       <<"L","a","w","y","e","r","s">>,
       <<"A","t","t","o","r","n","e","y","s">>,
       <<"P","r","o","v","i","d","e","r","s">>,
       <<"S","t","a","f","f">>>> >>,
    <<"awards", <<
       <<"A","w","a","r","d","s"," ","&"," ","C","e","r","t","i","f","i","c","a","t","i","o","n","s">>,
       <<"A","w","a","r","d","s">>,
       <<"C","e","r","t","i","f","i","c","a","t","i","o","n","s">>,
       <<"A","c","c","r","e","d","i","t","a","t","i","o","n","s">>,
       <<"L","i","c","e","n","s","e","s">>,
       <<"A","w","a","r","d","s",","," ","C","e","r","t","i","f","i","c","a","t","i","o","n","s",","," ","A","c","c","r","e","d","i","t","a","t","i","o","n","s">>>> >>,
    <<"press", <<
       <<"P","r","e","s","s","/","N","e","w","s"," ","M","e","n","t","i","o","n","s">>,
       <<"M","e","d","i","a"," ","M","e","n","t","i","o","n","s">>,
       <<"P","r","e","s","s">>,
       <<"N","e","w","s">>,
       <<"M","e","d","i","a">>>> >>,
    <<"case_studies", <<
       <<"C","a","s","e"," ","S","t","u","d","i","e","s">>,
       <<"C","a","s","e"," ","s","t","u","d","i","e","s">>,
       <<"M","a","t","t","e","r","s">>,
       <<"R","e","s","u","l","t","s">>>> >> >>

norm_sheet_NoStrip(s) == SubSpaceRuns(Lower(s), <<" ">>)

norm_sheet(s) == SubSpaceRuns(Lower(Strip(s)), <<" ">>)

\* The positions <<c, a>> of the table's aliases, in the order the loop that builds
\* alias_lookup visits them.
AliasPositions ==
    UNION {{<<c, a>> : a \in DOMAIN SHEET_ALIASES[c][2]} : c \in DOMAIN SHEET_ALIASES}

AliasAt(pos) == SHEET_ALIASES[pos[1]][2][pos[2]]

Before(p, q) == p[1] < q[1] \/ (p[1] = q[1] /\ p[2] < q[2])

\* alias_lookup[norm_sheet(a)] = canon is assigned for every alias in turn, so the
\* last alias that normalizes to a key decides its entry
alias_lookup ==
    [key \in {norm_sheet(AliasAt(pos)) : pos \in AliasPositions} |->
        LET hits == {pos \in AliasPositions : norm_sheet(AliasAt(pos)) = key}
        IN  SHEET_ALIASES[(CHOOSE p \in hits : \A q \in hits : q = p \/ Before(q, p))[1]][1]]

NoCanon == "none"

\* canon = alias_lookup.get(norm_sheet(actual_sheet))
Classify(actual_sheet) ==
    IF norm_sheet(actual_sheet) \in DOMAIN alias_lookup
    THEN alias_lookup[norm_sheet(actual_sheet)]
    ELSE NoCanon

\* ------------------------------------------------------------ writers

JsonExt == <<".","j","s","o","n">>
MdExt   == <<".","m","d">>

\* os.path.join(output_dir, filename)
PathJoin(output_dir, filename) == [dir |-> output_dir, name |-> filename]

deterministic_path_OneDir(output_dir, base_slug, ext) ==
    PathJoin("schemas", slugify(Str(base_slug)) \o ext)

deterministic_path(output_dir, base_slug, ext) ==
    PathJoin(output_dir, slugify(Str(base_slug)) \o ext)

\* what write_json leaves in the file: the record, keys in insertion order
JsonFile(data) == [kind |-> "json", data |-> data, body |-> <<>>]

\* what write_md leaves in the file: the front matter lines and the body
MdFile(title, slug, body, extra_frontmatter) ==
    LET fm0 == SetIf(<<>>, title # <<>>, "title", Str(title))
        fm1 == DictSet(fm0, "slug", Str(slug))
        fm2 == SetIf(fm1, extra_frontmatter # <<>>, "date", Str(extra_frontmatter))
    IN  [kind |-> "md", data |-> fm2, body |-> body]

\* open(path, "w"): the file is created or replaced
WriteFile_SuffixIfPresent(fs, path, content) ==
    LET n    == Len(path.name) - (IF EndsWith(path.name, MdExt) THEN Len(MdExt) ELSE Len(JsonExt))
        free == [dir |-> path.dir,
                 name |-> SubSeq(path.name, 1, n) \o <<"-", "1">>
                          \o SubSeq(path.name, n + 1, Len(path.name))]
        to   == IF path \in DOMAIN fs THEN free ELSE path
    IN  [q \in DOMAIN fs \cup {to} |-> IF q = to THEN content ELSE fs[q]]

WriteFile(fs, path, content) ==
    [q \in DOMAIN fs \cup {path} |-> IF q = path THEN content ELSE fs[q]]

\* ------------------------------------------------------------ transformers
\* Each gives, for row number i (idx + 1) of a sheet with columns cols, the slug and
\* the file content the branch of main builds.

OrganizationFileName == <<"o","r","g","a","n","i","z","a","t","i","o","n",".","j","s","o","n">>

SocialKeys ==
    << "facebook_url", "instagram_url", "linkedin_url", "twitter_url", "x_url",
       "youtube_url", "tiktok_url", "pinterest_url", "yelp_url", "bbb_url",
       "avvo_url", "martindale_url", "other_profiles" >>

RECURSIVE SameAs(_, _)
SameAs(row, keys) ==
    IF keys = <<>> THEN <<>>
    ELSE LET k  == Head(keys)
             v  == GetFirst(row, <<k>>)
             vv == Strip(PyStr(v))
         IN  (IF _is_blank(v) THEN <<>>
              ELSE IF k = "other_profiles" /\ (\E i \in DOMAIN vv : vv[i] = ",")
                   THEN SplitParts(vv, ",", <<>>)
                   ELSE <<vv>>)
             \o SameAs(row, Tail(keys))

OrgNameKeys  == <<"business_name", "entity_name", "name", "company_name", "firm_name">>
OrgUrlKeys   == <<"main_website_url", "website", "url">>
OrgLogoKeys  == <<"logo_url", "logo", "logoUrl">>
OrgShortKeys == <<"short_description", "description", "tagline">>
OrgLongKeys  == <<"long_description", "about", "about_text">>

OrgDescription(org, short_description) ==
    SetIf(org, short_description # <<>> /\ ~DictHas(org, "description"),
          "description", Str(short_description))

OrgName(org, business_name) ==
    SetIf(org, business_name # <<>>, "entity_name", Str(business_name))

organization_record(cols, row) ==
    LET business_name     == _as_str(GetFirst(row, OrgNameKeys))
        main_website_url  == _as_str(GetFirst(row, OrgUrlKeys))
        logo_url          == _as_str(GetFirst(row, OrgLogoKeys))
        short_description == _as_str(GetFirst(row, OrgShortKeys))
        long_description  == _as_str(GetFirst(row, OrgLongKeys))
        same_as           == SameAs(row, SocialKeys)
        o0 == CopyColumns(cols, row, <<>>, FALSE)
        o1 == OrgName(o0, business_name)
        o2 == SetIf(o1, main_website_url # <<>>, "website", Str(main_website_url))
        o3 == SetIf(o2, main_website_url # <<>>, "url", Str(main_website_url))
        o4 == SetIf(o3, logo_url # <<>>, "logo_url", Str(logo_url))
        o5 == OrgDescription(o4, short_description)
        o6 == SetIf(o5, long_description # <<>>, "about", Str(long_description))
        o7 == SetIf(o6, same_as # <<>>, "sameAs", PyList(same_as))
    IN  JsonFile(o7)

\* r.dropna().empty
RowIsEmpty(row) == \A c \in DOMAIN row : IsNa(row[c])

\* the first row of the sheet that is not all NaN (0: there is none)
FirstUsableRow(rows) ==
    IF \E i \in DOMAIN rows : ~RowIsEmpty(rows[i])
    THEN CHOOSE i \in DOMAIN rows :
            ~RowIsEmpty(rows[i]) /\ \A j \in 1..(i - 1) : RowIsEmpty(rows[j])
    ELSE 0

\* slug = _as_str(get_first(row, slugKeys)); if not slug: slug = slugify(title) if
\* title else f"<prefix>{idx+1}"; slug = slugify(slug)
SlugOrTitleOrIndex(row, slugKeys, title, prefix, i) ==
    LET slug == _as_str(GetFirst(row, slugKeys))
    IN  slugify(Str(IF slug # <<>> THEN slug
                    ELSE IF title # <<>> THEN slugify(Str(title))
                    ELSE prefix \o Decimal(i)))

\* if not name: name = f"<prefix>{idx+1}"
NameOrIndex(name, prefix, i) == IF name # <<>> THEN name ELSE prefix \o Decimal(i)

\* slug = _as_str(get_first(row, slugKeys)); if not slug: slug = slugify(name);
\* slug = slugify(slug)
SlugOrName(row, slugKeys, name) ==
    LET slug == _as_str(GetFirst(row, slugKeys))
    IN  slugify(Str(IF slug # <<>> THEN slug ELSE slugify(Str(name))))

\* ---- help articles
HelpTitle(row) == _as_str(GetFirst(row, <<"title", "article_title", "name", "headline">>))

help_articles_slug(row, i) ==
    SlugOrTitleOrIndex(row, <<"slug", "article_slug">>, HelpTitle(row),
                       <<"a","r","t","i","c","l","e","-">>, i)

help_articles_file(cols, row, i) ==
    MdFile(HelpTitle(row), help_articles_slug(row, i),
           _as_str(GetFirst(row, <<"article_content", "article", "content", "body", "markdown">>)),
           _as_str(GetFirst(row, <<"date", "published_date", "publish_date">>)))

\* ---- faqs
FaqQuestion(row, i) ==
    NameOrIndex(_as_str(GetFirst(row, <<"question", "q", "faq_question", "title">>)),
                <<"U","n","t","i","t","l","e","d"," ","F","A","Q"," ">>, i)

faqs_slug(row, i) == SlugOrName(row, <<"slug", "faq_id", "id">>, FaqQuestion(row, i))

faqs_file(cols, row, i) ==
    JsonFile(<< <<"question", Str(FaqQuestion(row, i))>>,
                <<"answer", Str(_as_str(GetFirst(row,
                     <<"answer", "a", "faq_answer", "response", "content">>)))>> >>)

\* ---- services
ServiceName(row, i) ==
    NameOrIndex(_as_str(GetFirst(row,
                   <<"service_name", "practice_area", "practice_area_name", "name", "title">>)),
                <<"S","e","r","v","i","c","e"," ">>, i)

services_slug(row, i) == SlugOrName(row, <<"slug", "service_id", "id">>, ServiceName(row, i))

\* the optional normalized fields Services and Team add when non-empty
LicenseFields(data, row) ==
    LET license_number == _as_str(GetFirst(row, <<"license_number", "license">>))
        bar_number     == _as_str(GetFirst(row, <<"bar_number", "barNumber">>))
        npi_number     == _as_str(GetFirst(row, <<"npi_number", "npiNumber">>))
        d1 == SetIf(data, license_number # <<>>, "license", Str(license_number))
        d2 == SetIf(d1, bar_number # <<>>, "barNumber", Str(bar_number))
    IN  SetIf(d2, npi_number # <<>>, "npiNumber", Str(npi_number))

services_file(cols, row, i) ==
    LET description == _as_str(GetFirst(row, <<"description", "service_description", "summary">>))
        price_range == _as_str(GetFirst(row, <<"price_range", "priceRange">>))
        certification_body == _as_str(GetFirst(row, <<"certification_body", "certification">>))
        d0 == << <<"name", Str(ServiceName(row, i))>>, <<"description", Str(description)>> >>
        d1 == SetIf(d0, price_range # <<>>, "priceRange", Str(price_range))
        d2 == LicenseFields(d1, row)
        d3 == SetIf(d2, certification_body # <<>>, "certification", Str(certification_body))
    IN  JsonFile(CopyColumns(cols, row, d3, TRUE))

\* ---- team
MemberName(row, i) ==
    LET direct == _as_str(GetFirst(row,
                     <<"member_name", "lawyer_name", "attorney_name", "name", "full_name">>))
        fn == _as_str(GetFirst(row, <<"first_name", "firstname">>))
        ln == _as_str(GetFirst(row, <<"last_name", "lastname">>))
        joined == Strip(JoinSpace(SelectSeq(<<fn, ln>>, LAMBDA p : p # <<>>)))
    IN  NameOrIndex(IF direct # <<>> THEN direct ELSE joined,
                    <<"M","e","m","b","e","r"," ">>, i)

team_slug(row, i) ==
    SlugOrName(row, <<"slug", "member_id", "lawyer_id", "id">>, MemberName(row, i))

team_file(cols, row, i) ==
    LET role == _as_str(GetFirst(row, <<"role", "title", "position">>))
        bio  == _as_str(GetFirst(row, <<"bio", "description", "about", "summary">>))
        d0 == << <<"name", Str(MemberName(row, i))>>, <<"role", Str(role)>>,
                 <<"description", Str(bio)>> >>
    IN  JsonFile(CopyColumns(cols, row, LicenseFields(d0, row), TRUE))

\* ---- reviews
ReviewTitle(row) == _as_str(GetFirst(row, <<"review_title", "title", "headline">>))

reviews_slug(row, i) ==
    SlugOrTitleOrIndex(row, <<"slug", "review_id", "id">>, ReviewTitle(row),
                       <<"r","e","v","i","e","w","-">>, i)

reviews_file(cols, row, i) ==
    LET title  == ReviewTitle(row)
        body   == _as_str(GetFirst(row,
                     <<"review_body", "review", "quote", "testimonial", "content">>))
        rating == GetFirst(row, <<"rating", "stars">>)
        date   == _as_str(GetFirst(row, <<"date", "review_date">>))
        d0 == CopyColumns(cols, row, <<>>, FALSE)
        d1 == SetIf(d0, title # <<>>, "review_title", Str(title))
        d2 == SetIf(d1, body # <<>>, "review_body", Str(body))
        d3 == SetIf(d2, body # <<>> /\ ~DictHas(d2, "quote"), "quote", Str(body))
        d4 == SetIf(d3, ~_is_blank(rating), "rating", rating)
    IN  JsonFile(SetIf(d4, date # <<>>, "date", Str(date)))

\* ---- locations
LocationName(row) == _as_str(GetFirst(row, <<"location_name", "name", "office_name", "title">>))

PostalKeys == <<"address_postal", "postal", "zip", "postal_code", "address_postal_code">>
HoursKeys  == <<"open_hours", "hours", "opening_hours">>

locations_slug(row, i) ==
    SlugOrTitleOrIndex(row, <<"slug", "location_id", "id">>, LocationName(row),
                       <<"l","o","c","a","t","i","o","n","-">>, i)

\* if value and key not in data: data[key] = value
FillIfAbsent_Overwrite(data, key, value) == SetIf(data, value # <<>>, key, Str(value))

FillIfAbsent(data, key, value) ==
    SetIf(data, value # <<>> /\ ~DictHas(data, key), key, Str(value))

locations_file(cols, row, i) ==
    LET d0 == CopyColumns(cols, row, <<>>, FALSE)
        address_postal == _as_str(GetFirst(row, PostalKeys))
        open_hours     == _as_str(GetFirst(row, HoursKeys))
        d1 == FillIfAbsent(d0, "address_postal_code", address_postal)
        d2 == FillIfAbsent(d1, "hours", open_hours)
    IN  JsonFile(FillIfAbsent(d2, "location_name", LocationName(row)))

\* ---- generic handler (press, awards, case studies, products)
GenericIdKeys ==
    << "slug", "id", "service_id", "product_id", "faq_id", "review_id", "location_id",
       "case_id", "press_id", "name", "title", "headline" >>

generic_slug(row, i) ==
    slugify(Str(NameOrIndex(_as_str(GetFirst(row, GenericIdKeys)), <<"i","t","e","m","-">>, i)))

generic_file(canon, cols, row, i) ==
    LET d0 == CopyColumns(cols, row, <<>>, FALSE)
        t  == _as_str(GetFirst(row, <<"title", "mention_title", "headline">>))
    IN  JsonFile(IF canon = "press" THEN FillIfAbsent(d0, "title", t) ELSE d0)

\* ---- the branch main takes for a category
SlugOf(canon, row, i) ==
    CASE canon = "help_articles" -> help_articles_slug(row, i)
      [] canon = "faqs"          -> faqs_slug(row, i)
      [] canon = "services"      -> services_slug(row, i)
      [] canon = "team"          -> team_slug(row, i)
      [] canon = "reviews"       -> reviews_slug(row, i)
      [] canon = "locations"     -> locations_slug(row, i)
      [] OTHER                   -> generic_slug(row, i)

FileOf(canon, cols, row, i) ==
    CASE canon = "help_articles" -> help_articles_file(cols, row, i)
      [] canon = "faqs"          -> faqs_file(cols, row, i)
      [] canon = "services"      -> services_file(cols, row, i)
      [] canon = "team"          -> team_file(cols, row, i)
      [] canon = "reviews"       -> reviews_file(cols, row, i)
      [] canon = "locations"     -> locations_file(cols, row, i)
      [] OTHER                   -> generic_file(canon, cols, row, i)

ExtOf(canon) == IF canon = "help_articles" THEN MdExt ELSE JsonExt

PathOf(canon, row, i) ==
    deterministic_path(canonical_output[canon], SlugOf(canon, row, i), ExtOf(canon))

\* ------------------------------------------------------------ state

VARIABLES
    input_exists,     \* os.path.exists(input_file)
    parse_ok,         \* pd.ExcelFile(input_file) does not raise
    clean,            \* the --clean flag
    workbook,         \* the sheets in workbook order, each [name, columns, rows] as
                      \* xlsx.parse and normalize_columns give it
    files,            \* the file system: path -> content
    pc,               \* where main is: "start", "clean", "sheets", "rows", "done"
    exit_code,        \* the process's exit status (-1 while it runs)
    sheet_i,          \* position of actual_sheet in xlsx.sheet_names
    row_i,            \* idx + 1 of the row the loop is at
    canon,            \* canon of the sheet being processed
    seen_slugs,
    processed_count,
    processed_any,
    run,              \* which invocation of the script this is
    writes,           \* history: the write attempts of this run
    delete_failed,    \* history: the paths os.remove failed on in this run
    io_failed,        \* history: some write or removal has failed, in any run
    start_files,      \* history: the file system when this run started
    first_files,      \* history: the file system when the first run ended
    arg, ret          \* argument and result of a library function applied alone

vars == << input_exists, parse_ok, clean, workbook, files, pc, exit_code, sheet_i,
           row_i, canon, seen_slugs, processed_count, processed_any, run, writes,
           delete_failed, io_failed, start_files, first_files, arg, ret >>

env  == << input_exists, parse_ok, clean, workbook >>
loop == << sheet_i, row_i, canon, seen_slugs, processed_count, processed_any >>
call == << arg, ret >>

Idle == [fn |-> "none"]

\* a run of main from a workbook of wbs (when the file exists and parses) and a file
\* system of fss
InitRun(wbs, fss) ==
    /\ input_exists \in BOOLEAN
    /\ parse_ok \in BOOLEAN
    /\ input_exists \/ ~parse_ok
    /\ clean \in BOOLEAN
    /\ IF input_exists /\ parse_ok THEN workbook \in wbs ELSE workbook = <<>>
    /\ files \in fss
    /\ pc = "start"
    /\ exit_code = -1
    /\ sheet_i = 1
    /\ row_i = 1
    /\ canon = NoCanon
    /\ seen_slugs = {}
    /\ processed_count = 0
    /\ processed_any = FALSE
    /\ run = 1
    /\ writes = {}
    /\ delete_failed = {}
    /\ io_failed = FALSE
    /\ start_files = files
    /\ first_files = files
    /\ arg = Idle
    /\ ret = Idle

Loaded == input_exists /\ parse_ok

\* ------------------------------------------------------------ main

\* fname.lower().endswith((".json", ".md")) in a known output directory
Generated(p) ==
    /\ p.dir \in KnownDirs
    /\ EndsWith(Lower(p.name), JsonExt) \/ EndsWith(Lower(p.name), MdExt)

OpenWorkbook_CleanFirst ==
    /\ pc = "start"
    /\ IF Loaded
       THEN pc' = "clean" /\ exit_code' = exit_code
       ELSE pc' = "done" /\ exit_code' = 1
    /\ files' = IF clean THEN [q \in {p \in DOMAIN files : ~Generated(p)} |-> files[q]]
                ELSE files
    /\ UNCHANGED << env, loop, run, writes, delete_failed, io_failed,
                    start_files, first_files, call >>

\* the existence check and pd.ExcelFile: sys.exit(1) on either failure
OpenWorkbook ==
    /\ pc = "start"
    /\ IF Loaded
       THEN pc' = "clean" /\ exit_code' = exit_code
       ELSE pc' = "done" /\ exit_code' = 1
    /\ UNCHANGED << env, files, loop, run, writes, delete_failed, io_failed,
                    start_files, first_files, call >>

clean_output_dirs_JsonOnly(fs, kept) ==
    [q \in {p \in DOMAIN fs : ~(p.dir \in KnownDirs /\ EndsWith(p.name, JsonExt)) \/ p \in kept}
        |-> fs[q]]

\* clean_output_dirs: every generated file is removed, but for those (kept) whose
\* os.remove raises
clean_output_dirs(fs, kept) ==
    [q \in {p \in DOMAIN fs : ~Generated(p) \/ p \in kept} |-> fs[q]]

\* if clean: clean_output_dirs(canonical_output); processed_any = False
CleanStep ==
    /\ pc = "clean"
    /\ IF clean
       THEN \E kept \in SUBSET {p \in DOMAIN files : Generated(p)} :
               /\ files' = clean_output_dirs(files, kept)
               /\ delete_failed' = kept
               /\ io_failed' = (io_failed \/ kept # {})
       ELSE UNCHANGED << files, delete_failed, io_failed >>
    /\ pc' = "sheets"
    /\ sheet_i' = 1
    /\ processed_any' = FALSE
    /\ UNCHANGED << env, exit_code, row_i, canon, seen_slugs, processed_count, run,
                    writes, start_files, first_files, call >>

\* df.empty
SheetIsEmpty(sheet) == sheet.rows = <<>> \/ sheet.columns = <<>>

\* the head of the sheet loop: classify; an unsupported or empty sheet is skipped
NextSheet ==
    /\ pc = "sheets"
    /\ sheet_i <= Len(workbook)
    /\ LET sheet == workbook[sheet_i]
           c     == Classify(sheet.name)
       IN  IF c = NoCanon \/ SheetIsEmpty(sheet)
           THEN /\ sheet_i' = sheet_i + 1
                /\ UNCHANGED << pc, row_i, canon, seen_slugs, processed_count >>
           ELSE /\ pc' = "rows"
                /\ canon' = c
                /\ row_i' = 1
                /\ seen_slugs' = {}
                /\ processed_count' = 0
                /\ UNCHANGED sheet_i
    /\ UNCHANGED << env, files, exit_code, processed_any, run, writes, delete_failed,
                    io_failed, start_files, first_files, call >>

\* what a write attempt leaves: the file written; or, when it raises, the file system
\* as it was ("failed": makedirs or open raised) or the file cut short ("partial":
\* open truncated it and the dump raised)
Outcomes == {"ok", "failed", "partial"}

PartialFile == [kind |-> "partial", data |-> <<>>, body |-> <<>>]

AfterWrite(fs, path, content, outcome) ==
    CASE outcome = "ok"      -> WriteFile(fs, path, content)
      [] outcome = "partial" -> WriteFile(fs, path, PartialFile)
      [] OTHER               -> fs

WriteEvent(s, r, path, outcome) ==
    [sheet |-> s, row |-> r, path |-> path, outcome |-> outcome]

\* if slug in seen_slugs: continue
IsDuplicate_Never(slug, seen) == FALSE

IsDuplicate(slug, seen) == slug \in seen

\* processed_any = True sits after the write, inside the try
MarkProcessed_BeforeWrite(any, outcome) == TRUE

MarkProcessed_OnceOpened(any, outcome) == any \/ outcome \in {"ok", "partial"}

MarkProcessed(any, outcome) == any \/ outcome = "ok"

\* the organization branch: the first row with any value is written to
\* organization.json; then the loop goes on to the next sheet
ProcessOrganization ==
    /\ pc = "rows"
    /\ canon = "organization"
    /\ LET sheet == workbook[sheet_i]
           k     == FirstUsableRow(sheet.rows)
           path  == PathJoin(canonical_output[canon], OrganizationFileName)
       IN  IF k = 0
           THEN UNCHANGED << files, writes, io_failed, processed_count, processed_any >>
           ELSE \E outcome \in Outcomes :
                   /\ files' = AfterWrite(files, path,
                                          organization_record(sheet.columns, sheet.rows[k]),
                                          outcome)
                   /\ writes' = writes \cup {WriteEvent(sheet_i, k, path, outcome)}
                   /\ io_failed' = (io_failed \/ outcome # "ok")
                   /\ processed_count' = IF outcome = "ok" THEN processed_count + 1
                                         ELSE processed_count
                   /\ processed_any' = MarkProcessed(processed_any, outcome)
    /\ pc' = "sheets"
    /\ sheet_i' = sheet_i + 1
    /\ UNCHANGED << env, exit_code, row_i, canon, seen_slugs, run, delete_failed,
                    start_files, first_files, call >>

\* one iteration of a row loop (help articles, faqs, services, team, reviews,
\* locations, generic): skip an all-NaN row, skip a slug seen in this sheet, else
\* reserve the slug and try the write
ProcessRow ==
    /\ pc = "rows"
    /\ canon # "organization"
    /\ row_i <= Len(workbook[sheet_i].rows)
    /\ LET sheet == workbook[sheet_i]
           row   == sheet.rows[row_i]
           slug  == SlugOf(canon, row, row_i)
           path  == deterministic_path(canonical_output[canon], slug, ExtOf(canon))
       IN  IF RowIsEmpty(row) \/ IsDuplicate(slug, seen_slugs)
           THEN UNCHANGED << files, writes, io_failed, seen_slugs, processed_count,
                             processed_any >>
           ELSE \E outcome \in Outcomes :
                   /\ seen_slugs' = seen_slugs \cup {slug}
                   /\ files' = AfterWrite(files, path,
                                          FileOf(canon, sheet.columns, row, row_i), outcome)
                   /\ writes' = writes \cup {WriteEvent(sheet_i, row_i, path, outcome)}
                   /\ io_failed' = (io_failed \/ outcome # "ok")
                   /\ processed_count' = IF outcome = "ok" THEN processed_count + 1
                                         ELSE processed_count
                   /\ processed_any' = MarkProcessed(processed_any, outcome)
    /\ row_i' = row_i + 1
    /\ UNCHANGED << env, pc, exit_code, sheet_i, canon, run, delete_failed,
                    start_files, first_files, call >>

\* the row loop is exhausted: the total is printed and the sheet loop goes on
EndSheet ==
    /\ pc = "rows"
    /\ canon # "organization"
    /\ row_i > Len(workbook[sheet_i].rows)
    /\ pc' = "sheets"
    /\ sheet_i' = sheet_i + 1
    /\ UNCHANGED << env, files, exit_code, row_i, canon, seen_slugs, processed_count,
                    processed_any, run, writes, delete_failed, io_failed, start_files,
                    first_files, call >>

\* if not processed_any: sys.exit(2); otherwise main returns (status 0)
ExitStatus(any) == IF ~any THEN 2 ELSE 0

Finish ==
    /\ pc = "sheets"
    /\ sheet_i > Len(workbook)
    /\ pc' = "done"
    /\ exit_code' = ExitStatus(processed_any)
    /\ UNCHANGED << env, files, loop, run, writes, delete_failed, io_failed,
                    start_files, first_files, call >>

\* the script is run a second time, after a first run in which no write and no
\* removal failed: same input file, same flag, the file system as the first run left it
Rerun ==
    /\ pc = "done"
    /\ run = 1
    /\ ~io_failed
    /\ run' = run + 1
    /\ pc' = "start"
    /\ exit_code' = -1
    /\ sheet_i' = 1
    /\ row_i' = 1
    /\ canon' = NoCanon
    /\ seen_slugs' = {}
    /\ processed_count' = 0
    /\ processed_any' = FALSE
    /\ writes' = {}
    /\ delete_failed' = {}
    /\ start_files' = files
    /\ first_files' = files
    /\ UNCHANGED << env, files, io_failed, call >>

Next ==
    \/ OpenWorkbook
    \/ CleanStep
    \/ NextSheet
    \/ ProcessOrganization
    \/ ProcessRow
    \/ EndSheet
    \/ Finish

\* main, and the script run again
NextRerun == Next \/ Rerun

\* ------------------------------------------------------------ inputs

\* sheet names as a workbook may spell them
Name_entity_info == <<"e","n","t","i","t","y","_","i","n","f","o">>
Name_Services == <<"S","e","r","v","i","c","e","s">>
Name_Products == <<"P","r","o","d","u","c","t","s">>
Name_FAQs == <<"F","A","Q","s">>
Name_HelpArticlesSpaced == <<"h","e","l","p"," ","\t"," ","A","R","T","I","C","L","E","S">>
Name_Reviews == <<"R","e","v","i","e","w","s">>
Name_Locations == <<"L","o","c","a","t","i","o","n","s">>
Name_Team == <<"T","e","a","m">>
Name_LawyersPadded == <<" "," ","L","a","w","y","e","r","s"," "," ">>
Name_AwardsAndCerts == <<"A","w","a","r","d","s"," ","&"," ","C","e","r","t","i","f","i","c","a","t","i","o","n","s">>
Name_PressNews == <<"P","R","E","S","S","/","N","E","W","S"," ","M","E","N","T","I","O","N","S">>
Name_CaseStudies == <<"C","a","s","e"," "," ","S","t","u","d","i","e","s">>
Name_Unknown == <<"U","n","k","n","o","w","n"," ","S","h","e","e","t">>
Name_Lawyer == <<"L","a","w","y","e","r">>
Name_FAQsInner == <<"F","A"," ","Q","s">>

SheetNames ==
    { Name_entity_info, Name_Services, Name_Products, Name_FAQs, Name_HelpArticlesSpaced,
      Name_Reviews, Name_Locations, Name_Team, Name_LawyersPadded, Name_AwardsAndCerts,
      Name_PressNews, Name_CaseStudies, Name_Unknown, Name_Lawyer, Name_FAQsInner }

\* cell texts
T_A_b    == Str(<<"A"," ","b">>)
T_a_b    == Str(<<"a","-","b">>)
T_blank  == Str(<<" ">>)
T_Acme   == Str(<<"A","c","m","e">>)
T_Other  == Str(<<" ","O","t","h","e","r">>)

SeqsUpTo(S, n) == UNION {[1..k -> S] : k \in 0..n}

\* the sheets named name with the columns cols (a sequence), at most n rows, the
\* cell of column c drawn from vals[c]
SheetsOf(name, cols, vals, n) ==
    LET Rows == {r \in [Range(cols) -> UNION Range(vals)] :
                    \A c \in Range(cols) : r[c] \in vals[c]}
    IN  {[name |-> name, columns |-> cols, rows |-> rs] : rs \in SeqsUpTo(Rows, n)}

\* file systems a run may start from
Stale == [kind |-> "stale", data |-> <<>>, body |-> <<>>]

StrayPaths ==
    { PathJoin("schemas/faqs", <<"a","-","b",".","j","s","o","n">>),
      PathJoin("schemas/press", <<"O","l","d",".","M","D">>),
      PathJoin("schemas/team", <<"n","o","t","e","s",".","t","x","t">>) }

FileSystems == {[p \in P |-> Stale] : P \in SUBSET StrayPaths}

\* ---- single-sheet workbooks: every spelling, two columns, up to MaxRows rows
MaxRows == 2

SlugTitleVals == [slug |-> {NaN, T_a_b}, title |-> {NaN, T_A_b}]

SingleSheetWorkbooks ==
    {<<>>} \cup
    {<<sh>> : sh \in UNION {SheetsOf(n, <<"slug", "title">>, SlugTitleVals, MaxRows) :
                              n \in SheetNames}}

Init == InitRun(SingleSheetWorkbooks, {[p \in {} |-> Stale], [p \in StrayPaths |-> Stale]})

Spec == Init /\ [][Next]_vars

\* ---- workbooks of up to MaxSheets sheets, for a run and its re-run
MaxSheets == 2

Row1(col, v) == [c \in {col} |-> v]

Sheet_Team ==
    [name |-> Name_Team, columns |-> <<"name">>,
     rows |-> <<Row1("name", T_A_b), Row1("name", T_a_b)>>]

Sheet_Lawyers ==
    [name |-> Name_LawyersPadded, columns |-> <<"name">>, rows |-> <<Row1("name", T_a_b)>>]

Sheet_FAQs ==
    [name |-> Name_FAQs, columns |-> <<"question">>,
     rows |-> <<Row1("question", T_A_b), Row1("question", T_Acme)>>]

Sheet_Help ==
    [name |-> Name_HelpArticlesSpaced, columns |-> <<"title">>,
     rows |-> <<Row1("title", NaN), Row1("title", T_blank)>>]

Sheet_Org ==
    [name |-> Name_entity_info, columns |-> <<"business_name">>,
     rows |-> <<Row1("business_name", T_Acme)>>]

Sheet_Unknown ==
    [name |-> Name_Unknown, columns |-> <<"name">>, rows |-> <<Row1("name", T_A_b)>>]

SheetCatalogue == {Sheet_Team, Sheet_Lawyers, Sheet_FAQs, Sheet_Help, Sheet_Org, Sheet_Unknown}

\* a workbook's sheet names are distinct
MultiSheetWorkbooks ==
    {wb \in SeqsUpTo(SheetCatalogue, MaxSheets) :
        \A i, j \in DOMAIN wb : wb[i].name = wb[j].name => i = j}

InitRerun ==
    InitRun(MultiSheetWorkbooks,
            {[p \in P |-> Stale] : P \in {{}, {PathJoin("schemas/faqs", <<"a","-","b",".","j","s","o","n">>)}, StrayPaths}})

SpecRerun == InitRerun /\ [][NextRerun]_vars

\* one run over a workbook of several sheets
SpecWorkbooks == InitRerun /\ [][Next]_vars

\* ---- sheets whose rows are empty, whitespace-only or titled
TitleVals == [title |-> {NaN, T_blank, T_A_b}]

TitleSheetWorkbooks ==
    {<<sh>> : sh \in UNION {SheetsOf(n, <<"title">>, TitleVals, MaxRows) : n \in SheetNames}}

InitBlankRows ==
    InitRun(TitleSheetWorkbooks, {[p \in {} |-> Stale], [p \in StrayPaths |-> Stale]})

SpecBlankRows == InitBlankRows /\ [][Next]_vars

\* ---- one-row sheets of the categories that overlay normalized fields on raw columns
MaxCols == 3

OverlayColumns ==
    [ organization |-> << "business_name", "entity_name", "short_description",
                          "description", "long_description", "about" >>,
      services     |-> << "service_name", "name", "service_description", "description",
                          "price_range", "priceRange" >>,
      team         |-> << "member_name", "name", "title", "role", "bio", "description" >>,
      reviews      |-> << "title", "review_title", "review", "review_body", "stars",
                          "rating" >>,
      locations    |-> << "zip", "postal_code", "address_postal_code", "open_hours",
                          "opening_hours", "hours" >> ]

OverlayNames ==
    [ organization |-> Name_entity_info, services |-> Name_Services, team |-> Name_Team,
      reviews |-> Name_Reviews, locations |-> Name_Locations ]

\* the subsequences of cols with 1..n columns
ColumnChoices(cols, n) ==
    {SelectSeq(cols, LAMBDA c : c \in cs) :
        cs \in {x \in SUBSET Range(cols) : x # {} /\ Cardinality(x) <= n}}

OverlaySheets ==
    UNION {{[name |-> OverlayNames[k], columns |-> cols, rows |-> <<r>>] :
               r \in [Range(cols) -> {T_Acme, T_Other, T_blank}]} :
           <<k, cols>> \in UNION {{k} \X ColumnChoices(OverlayColumns[k], MaxCols) :
                                     k \in DOMAIN OverlayColumns}}

InitOverlay == InitRun({<<sh>> : sh \in OverlaySheets}, {[p \in {} |-> Stale]})

SpecOverlay == InitOverlay /\ [][Next]_vars

\* ------------------------------------------------------------ library functions alone

\* a library function applied to one of args, outside any run of main
InitCall(args) ==
    /\ arg \in args
    /\ ret = Idle
    /\ pc = "lib"
    /\ input_exists = FALSE /\ parse_ok = FALSE /\ clean = FALSE /\ workbook = <<>>
    /\ files = [p \in {} |-> Stale] /\ start_files = files /\ first_files = files
    /\ exit_code = -1 /\ sheet_i = 1 /\ row_i = 1 /\ canon = NoCanon /\ seen_slugs = {}
    /\ processed_count = 0 /\ processed_any = FALSE /\ run = 1
    /\ writes = {} /\ delete_failed = {} /\ io_failed = FALSE

pipeline == << env, files, pc, exit_code, loop, run, writes, delete_failed, io_failed,
               start_files, first_files >>

\* ---- slugify(text)
MaxLen == 4

SlugChars == {"a", "B", "7", " ", "\t", "-", "!"}

SlugInputs ==
    {PyNone, NaN, PyInt(7), PyFloat(12)} \cup {Str(t) : t \in SeqsUpTo(SlugChars, MaxLen)}

CallSlugify ==
    /\ arg.fn = "slugify"
    /\ ret = Idle
    /\ ret' = [fn |-> "slugify", value |-> slugify(arg.text)]
    /\ UNCHANGED << pipeline, arg >>

InitSlugify == InitCall({[fn |-> "slugify", text |-> v] : v \in SlugInputs})

SpecSlugify == InitSlugify /\ [][CallSlugify]_vars

\* ---- get_first(row, keys, default)
MaxKeys == 3

NameColumns == {"business_name", "entity_name", "name"}

NameCells == {NaN, PyNone, PyInt(0), T_blank, T_Acme, T_Other}

GetFirstInputs ==
    {[fn |-> "get_first", row |-> r, keys |-> ks, default |-> d] :
        r \in UNION {[cs -> NameCells] : cs \in SUBSET NameColumns},
        ks \in SeqsUpTo(NameColumns, MaxKeys) \cup {OrgNameKeys},
        d \in {Str(<<>>), T_a_b}}

CallGetFirst ==
    /\ arg.fn = "get_first"
    /\ ret = Idle
    /\ ret' = [fn |-> "get_first", value |-> get_first(arg.row, arg.keys, arg.default)]
    /\ UNCHANGED << pipeline, arg >>

InitGetFirst == InitCall(GetFirstInputs)

SpecGetFirst == InitGetFirst /\ [][CallGetFirst]_vars

\* ------------------------------------------------------------ properties

CurSheet == workbook[sheet_i]

\* the row loop of a slug-named category has gone through the whole sheet
PassDone == pc = "rows" /\ canon # "organization" /\ row_i > Len(CurSheet.rows)

LiveRows == {j \in DOMAIN CurSheet.rows : ~RowIsEmpty(CurSheet.rows[j])}

RowSlug(j) == SlugOf(canon, CurSheet.rows[j], j)
RowPath(j) == PathOf(canon, CurSheet.rows[j], j)
RowFile(j) == FileOf(canon, CurSheet.columns, CurSheet.rows[j], j)

\* j is the first non-skipped row of the sheet with its slug, and not the only one
FirstOfSeveral(j) ==
    /\ j \in LiveRows
    /\ \A k \in LiveRows : k < j => RowSlug(k) # RowSlug(j)
    /\ \E k \in LiveRows : k > j /\ RowSlug(k) = RowSlug(j)

LaterDuplicatesDropped(j) ==
    \A k \in LiveRows :
        (k > j /\ RowSlug(k) = RowSlug(j)) => ~\E w \in writes : w.sheet = sheet_i /\ w.row = k

Attempt(j) == CHOOSE w \in writes : w.sheet = sheet_i /\ w.row = j

\* C1 as stated: after a sheet's pass, a slug that several non-skipped rows derive has
\* its file, holding the first such row's data, and no later row with it was written.
C1_Original ==
    PassDone =>
        \A j \in DOMAIN CurSheet.rows :
            FirstOfSeveral(j) =>
                /\ RowPath(j) \in DOMAIN files
                /\ files[RowPath(j)] = RowFile(j)
                /\ LaterDuplicatesDropped(j)

\* C1 (amended): after a sheet's pass, for a slug that several non-skipped rows derive,
\* the only write attempted at the slug's path is the first such row's, every later
\* row with the slug was dropped without writing, and when that first write succeeded
\* the file holds the first row's data.
C1_FirstSlugWins ==
    PassDone =>
        \A j \in DOMAIN CurSheet.rows :
            FirstOfSeveral(j) =>
                /\ \A w \in writes :
                      (w.sheet = sheet_i /\ w.path = RowPath(j)) => w.row = j
                /\ \E w \in writes : w.sheet = sheet_i /\ w.row = j /\ w.path = RowPath(j)
                /\ LaterDuplicatesDropped(j)
                /\ Attempt(j).outcome = "ok" =>
                      /\ RowPath(j) \in DOMAIN files
                      /\ files[RowPath(j)] = RowFile(j)

C1_Witness ==
    /\ PassDone
    /\ \E j \in DOMAIN CurSheet.rows :
          /\ FirstOfSeveral(j)
          /\ \E k \in LiveRows : k > j /\ RowSlug(k) = RowSlug(j) /\ RowFile(k) # RowFile(j)
          /\ Attempt(j).outcome = "ok"
          /\ files[RowPath(j)] = RowFile(j)

\* C3: once the workbook has loaded, the run ends with the failure status exactly when
\* no record was written during the run, and with status 0 when one was.
Written == {w \in writes : w.outcome = "ok"}

C3_FailsIffNothingWritten ==
    (pc = "done" /\ Loaded) =>
        /\ exit_code \in {0, 2}
        /\ exit_code = 2 <=> Written = {}
        /\ exit_code = 0 <=> Written # {}

C3_Witness == pc = "done" /\ Loaded /\ exit_code = 2 /\ writes # {} /\ Written = {}

\* C4: with the cleanup flag, once the workbook has loaded every generated file
\* (.json, .md) of every known output directory is removed before the first write and
\* nothing is removed after a write, whatever sheets the workbook holds; so any such
\* file present afterwards is one this run wrote (or one whose removal failed).
C4_AfterClean ==
    (clean /\ Loaded /\ pc \notin {"start", "clean"}) =>
        \A p \in DOMAIN files :
            Generated(p) =>
                \/ p \in delete_failed
                \/ \E w \in writes : w.path = p /\ w.outcome # "failed"

C4_RemovalStep ==
    (\E p \in DOMAIN files : p \notin DOMAIN files') => (clean /\ pc = "clean" /\ writes = {})

C4_CleanBeforeWrites == []C4_AfterClean /\ [][C4_RemovalStep]_vars

C4_Witness ==
    /\ clean /\ pc = "done" /\ delete_failed = {} /\ Written # {}
    /\ \A i \in DOMAIN workbook : Classify(workbook[i].name) # "press"
    /\ \E p \in DOMAIN start_files : p.dir = "schemas/press" /\ p \notin DOMAIN files

\* C7: classification looks only at the sheet name up to surrounding whitespace, runs of
\* inner whitespace and letter case: a sheet gets category C exactly when its name and an
\* alias of C are the same words; no two categories share such an alias; a sheet that
\* matches no alias has nothing written for it.
RECURSIVE Words(_)
Words(s) ==
    LET t == LStrip(s)
        n == IF \E i \in DOMAIN t : IsSpace(t[i])
             THEN (CHOOSE i \in DOMAIN t : IsSpace(t[i]) /\ \A j \in 1..(i - 1) : ~IsSpace(t[j])) - 1
             ELSE Len(t)
    IN  IF t = <<>> THEN <<>>
        ELSE <<Lower(SubSeq(t, 1, n))>> \o Words(SubSeq(t, n + 1, Len(t)))

AliasWords == [pos \in AliasPositions |-> Words(AliasAt(pos))]

\* the categories with an alias made of the same words as name
MatchedCategories(name) ==
    LET w == Words(name)
    IN  {SHEET_ALIASES[pos[1]][1] : pos \in {q \in AliasPositions : AliasWords[q] = w}}

Matches(name, c) == c \in MatchedCategories(name)

AliasesUnambiguous ==
    \A p, q \in AliasPositions :
        AliasWords[p] = AliasWords[q] => SHEET_ALIASES[p[1]][1] = SHEET_ALIASES[q[1]][1]

SheetHasLiveRow(sheet) ==
    sheet.columns # <<>> /\ \E j \in DOMAIN sheet.rows : ~RowIsEmpty(sheet.rows[j])

C7_ClassifiedByNormalizedName ==
    /\ AliasesUnambiguous
    /\ pc = "rows" => Matches(CurSheet.name, canon)
    /\ \A w \in writes :
          \E c \in MatchedCategories(workbook[w.sheet].name) :
              w.path.dir = canonical_output[c]
    /\ \A i \in DOMAIN workbook :
          (pc # "start" /\ i < sheet_i /\ SheetHasLiveRow(workbook[i]))
          => \A c \in MatchedCategories(workbook[i].name) :
                 \E w \in writes : w.sheet = i /\ w.path.dir = canonical_output[c]

C7_Witness ==
    /\ pc = "done"
    /\ \E w \in Written :
          workbook[w.sheet].name = Name_LawyersPadded /\ w.path.dir = "schemas/team"

\* C10: when the input file is absent or the workbook does not parse, the run stops at
\* once with status 1 and the output files are as they were, cleanup flag or not.
C10_StartupFailureTouchesNothing ==
    ~Loaded =>
        /\ pc \in {"start", "done"}
        /\ files = start_files /\ writes = {} /\ delete_failed = {}
        /\ pc = "done" => exit_code = 1

C10_Witness ==
    /\ pc = "done" /\ ~Loaded /\ clean /\ exit_code = 1
    /\ \E p \in DOMAIN files : Generated(p)

\* C8: get_first gives the value of the first candidate, in list order, that the row
\* holds and that is not blank (None, NaN or whitespace-only text), and the default when
\* there is none; so a row with business_name and entity_name both filled resolves the
\* organization's name to business_name.
BlankValue(v) == v.t \in {"none", "nan"} \/ (v.t = "str" /\ \A i \in DOMAIN v.s : IsSpace(v.s[i]))

Qualifying(row, keys) == {i \in DOMAIN keys : keys[i] \in DOMAIN row /\ ~BlankValue(row[keys[i]])}

C8_FirstNonBlankCandidate ==
    ret # Idle =>
        LET q == Qualifying(arg.row, arg.keys)
        IN  /\ q = {} => ret.value = arg.default
            /\ q # {} => ret.value = arg.row[arg.keys[CHOOSE i \in q : \A j \in q : i <= j]]
            /\ (arg.keys = OrgNameKeys /\ {"business_name", "entity_name"} \subseteq DOMAIN arg.row
                  /\ ~BlankValue(arg.row["business_name"])
                  /\ ~BlankValue(arg.row["entity_name"]))
               => ret.value = arg.row["business_name"]

C8_Witness ==
    /\ ret # Idle
    /\ arg.keys = OrgNameKeys
    /\ {"business_name", "entity_name"} \subseteq DOMAIN arg.row
    /\ arg.row["business_name"] = T_Acme /\ arg.row["entity_name"] = T_Other
    /\ ret.value = T_Acme

\* C9: slugify returns, for every input, a non-empty string of lower-case letters,
\* digits and hyphens, and "untitled" for None and for blank text.
C9_SlugIsSafeAndNonEmpty ==
    ret # Idle =>
        /\ ret.value # <<>>
        /\ \A i \in DOMAIN ret.value :
              IsLower(ret.value[i]) \/ IsDigit(ret.value[i]) \/ ret.value[i] = "-"
        /\ (arg.text = PyNone \/ (arg.text.t = "str" /\ BlankValue(arg.text)))
           => ret.value = Untitled

C9_Witness ==
    /\ ret # Idle
    /\ arg.text = Str(<<" ", "\t">>)
    /\ ret.value = Untitled

\* ------------------------------------------------------------ the run repeated
\* C2: when the script is run a second time on the unchanged workbook with the same
\* flag and nothing fails, the output directories hold exactly the files, each with
\* exactly the content, that the first run left.
C2_RerunChangesNothing ==
    (run = 2 /\ pc = "done" /\ ~io_failed) => files = first_files

C2_Witness ==
    /\ run = 2 /\ pc = "done" /\ ~io_failed
    /\ Cardinality(Written) >= 2
    /\ \E w \in Written : w.path \in DOMAIN first_files /\ first_files[w.path].kind = "json"
    /\ \E p \in DOMAIN files : files[p] = Stale
    /\ files = first_files

\* ------------------------------------------------------------ overlay precedence
\* the record a successful write left, when no other row was written to its path
Settled(w) == w.outcome = "ok" /\ \A x \in writes : x.path = w.path => x = w

RecordOf(w) == files[w.path].data

RowOf(w) == workbook[w.sheet].rows[w.row]

CategoryOf(w) == Classify(workbook[w.sheet].name)

NormalizedOf(c, row, i) ==
    CASE c = "organization" ->
            { <<"entity_name", Str(_as_str(GetFirst(row, OrgNameKeys)))>>,
              <<"website",     Str(_as_str(GetFirst(row, OrgUrlKeys)))>>,
              <<"url",         Str(_as_str(GetFirst(row, OrgUrlKeys)))>>,
              <<"logo_url",    Str(_as_str(GetFirst(row, OrgLogoKeys)))>>,
              <<"description", Str(_as_str(GetFirst(row, OrgShortKeys)))>>,
              <<"about",       Str(_as_str(GetFirst(row, OrgLongKeys)))>> }
      [] c = "services" ->
            { <<"name", Str(ServiceName(row, i))>>,
              <<"description",
                Str(_as_str(GetFirst(row, <<"description", "service_description", "summary">>)))>>,
              <<"priceRange", Str(_as_str(GetFirst(row, <<"price_range", "priceRange">>)))>>,
              <<"license", Str(_as_str(GetFirst(row, <<"license_number", "license">>)))>>,
              <<"barNumber", Str(_as_str(GetFirst(row, <<"bar_number", "barNumber">>)))>>,
              <<"npiNumber", Str(_as_str(GetFirst(row, <<"npi_number", "npiNumber">>)))>>,
              <<"certification",
                Str(_as_str(GetFirst(row, <<"certification_body", "certification">>)))>> }
      [] c = "team" ->
            { <<"name", Str(MemberName(row, i))>>,
              <<"role", Str(_as_str(GetFirst(row, <<"role", "title", "position">>)))>>,
              <<"description",
                Str(_as_str(GetFirst(row, <<"bio", "description", "about", "summary">>)))>>,
              <<"license", Str(_as_str(GetFirst(row, <<"license_number", "license">>)))>>,
              <<"barNumber", Str(_as_str(GetFirst(row, <<"bar_number", "barNumber">>)))>>,
              <<"npiNumber", Str(_as_str(GetFirst(row, <<"npi_number", "npiNumber">>)))>> }
      [] c = "reviews" ->
            { <<"review_title", Str(ReviewTitle(row))>>,
              <<"review_body",
                Str(_as_str(GetFirst(row,
                   <<"review_body", "review", "quote", "testimonial", "content">>)))>>,
              <<"rating", GetFirst(row, <<"rating", "stars">>)>>,
              <<"date", Str(_as_str(GetFirst(row, <<"date", "review_date">>)))>> }
      [] OTHER -> {}

\* the normalized fields of the row that compete with a raw column of their own key
Contested(c, row, i) ==
    {f \in NormalizedOf(c, row, i) :
        /\ ~BlankValue(f[2])
        /\ f[1] \in DOMAIN row
        /\ ~BlankValue(row[f[1]])
        /\ row[f[1]] # f[2]}

\* C5: in an Organization, Services, Team or Reviews record, a normalized field that
\* resolved to a non-empty value is what the record holds under its key, also when the
\* row has a raw column of that key with another non-blank value.
C5_NormalizedWins ==
    \A w \in writes :
        Settled(w) =>
            \A f \in Contested(CategoryOf(w), RowOf(w), w.row) :
                DictHas(RecordOf(w), f[1]) /\ DictGet(RecordOf(w), f[1]) = f[2]

\* C6: a Locations record keeps the raw address_postal_code (hours) value the row has,
\* whatever the other postal (hours) aliases hold; when the row has none, the key holds
\* the trimmed value of the first non-blank alias in candidate order, and is missing
\* when every alias is blank.
LocationTargets == { <<"address_postal_code", PostalKeys>>, <<"hours", HoursKeys>> }

RawPresent(row, key) == key \in DOMAIN row /\ ~IsNa(row[key])

FirstQualifying(row, keys) ==
    keys[CHOOSE i \in Qualifying(row, keys) : \A j \in Qualifying(row, keys) : i <= j]

C6_LocationsRawWins ==
    \A w \in writes :
        (Settled(w) /\ CategoryOf(w) = "locations") =>
            \A t \in LocationTargets :
                LET row == RowOf(w)
                    rec == RecordOf(w)
                IN  IF RawPresent(row, t[1])
                    THEN DictHas(rec, t[1]) /\ DictGet(rec, t[1]) = row[t[1]]
                    ELSE IF Qualifying(row, t[2]) = {}
                    THEN ~DictHas(rec, t[1])
                    ELSE /\ DictHas(rec, t[1])
                         /\ DictGet(rec, t[1])
                              = Str(Strip(PyStr(row[FirstQualifying(row, t[2])])))

C6_Witness ==
    \E w \in writes :
        /\ Settled(w) /\ CategoryOf(w) = "locations"
        /\ DOMAIN RowOf(w) = {"zip", "address_postal_code", "opening_hours"}
        /\ RowOf(w)["zip"] = T_Acme
        /\ RowOf(w)["address_postal_code"] = T_Other
        /\ RowOf(w)["opening_hours"] = T_Other
        /\ DictGet(RecordOf(w), "address_postal_code") = T_Other
        /\ DictGet(RecordOf(w), "hours") = Str(<<"O","t","h","e","r">>)

\* ------------------------------------------------------------ failed writes
SheetCanon(s) == Classify(workbook[s].name)

\* the rows of sheet s that the pass reaches a write for
DueRows(s) ==
    LET sh == workbook[s]
        c  == SheetCanon(s)
    IN  IF c = NoCanon \/ SheetIsEmpty(sh) THEN {}
        ELSE IF c = "organization"
        THEN {j \in DOMAIN sh.rows : j = FirstUsableRow(sh.rows)}
        ELSE {j \in DOMAIN sh.rows :
                /\ ~RowIsEmpty(sh.rows[j])
                /\ \A k \in 1..(j - 1) :
                      RowIsEmpty(sh.rows[k]) \/ SlugOf(c, sh.rows[k], k) # SlugOf(c, sh.rows[j], j)}

Attempted(s, j) == \E w \in writes : w.sheet = s /\ w.row = j

RunContinues ==
    (pc = "done" /\ Loaded) => \A s \in DOMAIN workbook : \A j \in DueRows(s) : Attempted(s, j)

FailedNotCounted ==
    /\ processed_any <=> (Written # {})
    /\ (pc = "done" /\ Loaded /\ Written = {}) => exit_code = 2

Failed == {w \in writes : w.outcome # "ok" /\ \A x \in writes : x.path = w.path => x = w}

\* C11 as stated: a failed write does not stop the run, is not counted, and leaves no
\* file of the record in the output.
C11_Original ==
    /\ RunContinues
    /\ FailedNotCounted
    /\ \A w \in Failed : w.path \notin DOMAIN files

\* C11 (amended): a failed write does not stop the run and is not counted; at the
\* record's path it leaves what was there before the run's write (no file, or the
\* file an earlier run or the operator left) or a truncated file, never the record.
C11_FailedWriteIsSkipped ==
    /\ RunContinues
    /\ FailedNotCounted
    /\ \A w \in Failed :
          w.path \in DOMAIN files =>
              \/ files[w.path] = PartialFile
              \/ w.path \in DOMAIN start_files /\ files[w.path] = start_files[w.path]

C11_Witness ==
    /\ pc = "done" /\ exit_code = 0
    /\ \E w \in Failed : \E x, y \in Written :
          /\ w.path \notin DOMAIN files
          /\ x.sheet = w.sheet /\ x.row > w.row
          /\ y.sheet > w.sheet

\* ------------------------------------------------------------ output paths
SameRow(w, x) == w.sheet = x.sheet /\ w.row = x.row

\* C12 as stated: no two distinct rows processed in one run are written to the same
\* path, rows of two sheets of one category included.
C12_Original ==
    \A w, x \in Written : ~SameRow(w, x) => w.path # x.path

\* C12 (amended): two distinct rows written in one run share a path only when they
\* come from two different sheets of the same category; rows of one sheet, and rows
\* of sheets of different categories, never do.
C12_PathsDistinctWithinSheet ==
    \A w, x \in Written :
        (~SameRow(w, x) /\ w.path = x.path) =>
            w.sheet # x.sheet /\ SheetCanon(w.sheet) = SheetCanon(x.sheet)

C12_Witness ==
    \E w, x, y \in Written :
        /\ w.sheet = x.sheet /\ w.row # x.row /\ w.path # x.path
        /\ y.sheet # w.sheet /\ SheetCanon(y.sheet) # SheetCanon(w.sheet)
        /\ y.path.name = w.path.name /\ y.path # w.path

\* ------------------------------------------------------------ blank rows
AllBlank(row) == \A c \in DOMAIN row : BlankValue(row[c])

\* C13: a row whose every field is blank (missing, null or whitespace-only) is
\* skipped: no write is tried for it, so it leaves no file and reserves no slug.
C13_BlankRowsSkipped ==
    \A w \in writes : ~AllBlank(RowOf(w))

\* ------------------------------------------------------------ slugs of punctuation
NoLetterOrDigit(t) == \A i \in DOMAIN t : ~(IsUpper(t[i]) \/ IsLower(t[i]) \/ IsDigit(t[i]))

\* C14: slugify returns "untitled" for every text that is empty or made only of
\* punctuation and whitespace, hyphens included.
C14_PunctuationGivesUntitled ==
    (ret # Idle /\ arg.text.t = "str" /\ NoLetterOrDigit(arg.text.s)) => ret.value = Untitled

=============================================================================
